---- MODULE Spec2Model ----
(***************************************************************************)
(* Cordcutter: a per-command circuit breaker for discord.py application    *)
(* commands (src/cordcutter/__init__.py).                                  *)
(*                                                                         *)
(* The model follows one Cordcutter instance on one event loop.  A step is *)
(* a stretch of code that runs without suspension: a command invocation,   *)
(* an error hook up to its call of the original handler (handle_cutter     *)
(* awaits only tripped_breaker, a coroutine without suspension point), a   *)
(* reset timer firing, an assignment of the trip callback.                 *)
(***************************************************************************)
EXTENDS Integers, Sequences, FiniteSets, Bags, TLC

\* ------------------------------------------------------------------ bounds
\* Largest threshold the breaker is constructed with.
MaxThreshold == 2
\* Most failures that have happened and are not yet reported to a hook.
MaxInFlight == 2

\* ------------------------------------------------------------------ values
\* Python values are records [type, id] so that any two can be compared.
None == [type |-> "NoneType", id |-> 0]
\* The receiver (cog instance) a bound command is called on.
Receiver == [type |-> "Cog", id |-> 0]
\* The extra positional argument of a context menu callback (its target).
Target == [type |-> "Member", id |-> 0]
\* A discord.Interaction.
Interaction == [type |-> "Interaction", id |-> 1]
\* A commands.Context of a slash invocation (ctx.interaction is set).
ContextApp == [type |-> "Context", id |-> 1]
\* A commands.Context of a text invocation (ctx.interaction is None).
ContextText == [type |-> "Context", id |-> 0]

\* The execution contexts a command callback is called with.
Contexts == {Interaction, ContextApp, ContextText}

\* ctx.interaction of a commands.Context.
InteractionOf(ctx) ==
    IF ctx.id = 0 THEN None ELSE [type |-> "Interaction", id |-> ctx.id]

\* The commands registered on the tree.
Commands == {"a", "b"}

\* getattr(command, "binding", None): command "a" lives in a cog, command
\* "b" is a free function (as the commands of the examples are).
Binding(c) == IF c = "a" THEN Receiver ELSE None

\* The thresholds a breaker is constructed with: the constructor takes any
\* integer, also zero and negative ones.
Thresholds == -1 .. MaxThreshold

\* A datetime.timedelta of the given number of seconds.
Timedelta(seconds) == [type |-> "timedelta", id |-> seconds]

\* A Python int.
IntValue(n) == [type |-> "int", id |-> n]

\* The values assigned to reset_after: None (the constructor's default), the
\* integer 5 (as in the examples) and a duration of five seconds.
ResetAfterInputs == {None, IntValue(5), Timedelta(5)}

\* Mutant of NormalizeResetAfter: an integer is taken as seconds.
NormalizeResetAfterSeconds(time) ==
    IF time = None THEN Timedelta(60)
    ELSE IF time.type # "timedelta" THEN Timedelta(time.id)
    ELSE time

\* The reset_after setter: the duration stored for the assigned value.
NormalizeResetAfter(time) ==
    IF time = None THEN Timedelta(60)
    ELSE IF time.type # "timedelta" THEN Timedelta(time.id * 60)
    ELSE time

\* timedelta.total_seconds().
TotalSeconds(d) == d.id

\* The values assigned to trip_callback.
CallbackInputs == {"None", "on_tripped", "not_coroutine"}

\* ------------------------------------------------------------------- state
VARIABLES
    threshold,                  \* self.threshold
    trip_callback,              \* self._trip_callback, "unset": no attribute
    original_on_command_error,  \* self._original_on_command_error
    reset_after,                \* self._reset_after
    reset_after_arg,            \* history: the value last assigned to reset_after
    errors,                     \* self.errors, a function on the keys present
    tripped_at,                 \* self.tripped_at
    callback,                   \* command._callback of every command
    timers,                     \* pending loop.call_later handles, a bag
    inflight,                   \* failures not yet reported to a hook, a bag
    before_trip,                \* history: live handler when last tripped
    success_between,            \* history: a success followed a counted failure
    event                       \* what the last step did

breaker == <<errors, tripped_at, callback, timers>>
config == <<threshold, original_on_command_error, reset_after, reset_after_arg>>
history == <<before_trip, success_between>>
vars == <<threshold, trip_callback, original_on_command_error, reset_after,
          reset_after_arg, errors,
          tripped_at, callback, timers, inflight, before_trip,
          success_between, event>>

\* ---------------------------------------------------------------- handlers
\* The callback a command is registered with.
OriginalCallback == [fn |-> "command", depth |-> 0, binding |-> None]

\* __wrap_trip_callback(command_callback, binding): a closure over both.
WrapTripCallback(command_callback, binding) ==
    [fn |-> "wrapper", depth |-> command_callback.depth + 1, binding |-> binding]

IsWrapper(h) == h.fn = "wrapper"

\* Python's args[i] on a tuple: IndexError when i is out of range.
ArgAt(args, i) ==
    IF i + 1 <= Len(args) THEN [raised |-> "None", value |-> args[i + 1]]
    ELSE [raised |-> "IndexError", value |-> None]

\* The positional arguments the framework calls a command callback with:
\* the receiver first when the command has one, then the execution context,
\* then further positional arguments (keyword arguments are not in args).
CallArgs(c, ctx, extra) ==
    (IF Binding(c) # None THEN <<Binding(c)>> ELSE <<>>) \o <<ctx>> \o extra

\* The wrapper's choice of the execution-context argument.
InteractionArg(binding, args) ==
    IF binding # None THEN ArgAt(args, 0) ELSE ArgAt(args, 1)

\* Mutant of Wrapper: an exception of the trip callback is caught.
WrapperCatches(binding, args, cb_raises) ==
    LET picked == InteractionArg(binding, args) IN
    IF picked.raised # "None"
    THEN [ran |-> "nothing", cb_arg |-> None, raised |-> picked.raised]
    ELSE IF picked.value.type = "Context" /\ InteractionOf(picked.value) = None
    THEN [ran |-> "nothing", cb_arg |-> None, raised |-> "TypeError"]
    ELSE IF trip_callback = "unset"
    THEN [ran |-> "nothing", cb_arg |-> None, raised |-> "AttributeError"]
    ELSE [ran |-> "trip_callback",
          cb_arg |-> IF picked.value.type = "Context"
                     THEN InteractionOf(picked.value) ELSE picked.value,
          raised |-> "None"]

\* wrapper(*args): what runs, with which argument, and what is raised.
\* cb_raises is whether the trip callback raises when it is awaited.
Wrapper(binding, args, cb_raises) ==
    LET picked == InteractionArg(binding, args) IN
    IF picked.raised # "None"
    THEN [ran |-> "nothing", cb_arg |-> None, raised |-> picked.raised]
    ELSE IF picked.value.type = "Context" /\ InteractionOf(picked.value) = None
    THEN [ran |-> "nothing", cb_arg |-> None, raised |-> "TypeError"]
    ELSE LET interaction_arg ==
                 IF picked.value.type = "Context"
                 THEN InteractionOf(picked.value) ELSE picked.value
         IN  IF trip_callback = "unset"
             THEN [ran |-> "nothing", cb_arg |-> None, raised |-> "AttributeError"]
             ELSE [ran |-> "trip_callback", cb_arg |-> interaction_arg,
                   raised |-> IF cb_raises THEN "CallbackError" ELSE "None"]

\* ----------------------------------------------------------------- registry
\* self.errors.get(command, 0): never creates an entry.
ErrorsGet(e, c) == IF c \in DOMAIN e THEN e[c] ELSE 0

\* Mutant of ErrorsIncrement: the count is overwritten, not incremented.
ErrorsIncrementOverwrites(e, c) ==
    [k \in DOMAIN e \cup {c} |-> IF k = c THEN 1 ELSE e[k]]

\* self.errors[command] += 1 on a defaultdict(int).
ErrorsIncrement(e, c) ==
    [k \in DOMAIN e \cup {c} |-> IF k = c THEN ErrorsGet(e, c) + 1 ELSE e[k]]

\* Mutant of ErrorsPop: the count is set to zero, the entry is kept.
ErrorsPopZeroes(e, c) == [k \in DOMAIN e |-> IF k = c THEN 0 ELSE e[k]]

\* self.errors.pop(command, None).
ErrorsPop(e, c) == [k \in DOMAIN e \ {c} |-> e[k]]

\* Mutant of AlreadyTripped: strict comparison.
AlreadyTrippedStrict(e, c) == ErrorsGet(e, c) > threshold

\* Mutant of AlreadyTripped: the guard is missing.
AlreadyTrippedNever(e, c) == FALSE

\* "Breaker has already tripped".
AlreadyTripped(e, c) == ErrorsGet(e, c) >= threshold

\* Mutant of ThresholdReached: strict comparison.
ThresholdReachedLate(e, c) == e[c] > threshold

\* The trip decision after the increment.
ThresholdReached(e, c) == e[c] >= threshold

\* The reading of the clock at a trip.
Now == [type |-> "datetime", id |-> 0]

\* The breaker's mutable state, as the record the operations below transform;
\* raised is the exception that ended the operation, "None" when it returned.
BreakerState ==
    [errors |-> errors, tripped_at |-> tripped_at, callback |-> callback,
     timers |-> timers, raised |-> "None"]

\* A pending loop.call_later(reset_after, self.reset_breaker, command, original_callback).
Timer(c, original_callback) ==
    [command |-> c, original_callback |-> original_callback,
     delay |-> TotalSeconds(reset_after)]

\* Mutant of TrippedBreaker: the handler is swapped and no reset is scheduled.
TrippedBreakerNoTimer(s, c) ==
    IF trip_callback = "unset"
    THEN [s EXCEPT !.raised = "AttributeError"]
    ELSE [s EXCEPT !.tripped_at = Now,
                   !.callback[c] = WrapTripCallback(s.callback[c], Binding(c))]

\* Mutant of TrippedBreaker: the handler handed to the timer is read after
\* the swap.
TrippedBreakerCapturesLate(s, c) ==
    IF trip_callback = "unset"
    THEN [s EXCEPT !.raised = "AttributeError"]
    ELSE LET wrapper == WrapTripCallback(s.callback[c], Binding(c)) IN
         [s EXCEPT !.tripped_at = Now,
                   !.callback[c] = wrapper,
                   !.timers = @ (+) SetToBag({Timer(c, wrapper)})]

\* tripped_breaker(command).  Reading self.trip_callback when no callback was
\* ever stored raises AttributeError: the setter returns on None before it
\* assigns self._trip_callback, so the attribute does not exist.
TrippedBreaker(s, c) ==
    IF trip_callback = "unset"
    THEN [s EXCEPT !.raised = "AttributeError"]
    ELSE LET original_callback == s.callback[c] IN
         [s EXCEPT !.tripped_at = Now,
                   !.callback[c] = WrapTripCallback(original_callback, Binding(c)),
                   !.timers = @ (+) SetToBag({Timer(c, original_callback)})]

\* Mutant of HandleCutter: an interaction without a command is counted too.
HandleCutterCountsUnresolved(s, c) ==
    IF AlreadyTripped(s.errors, c) THEN s
    ELSE LET counted == [s EXCEPT !.errors = ErrorsIncrement(s.errors, c)] IN
         IF c # "None" /\ ThresholdReached(counted.errors, c)
         THEN TrippedBreaker(counted, c)
         ELSE counted

\* handle_cutter(interaction, error) for an interaction whose command is c
\* ("None": interaction.command is None).
HandleCutter(s, c) ==
    IF c = "None" THEN s
    ELSE IF AlreadyTripped(s.errors, c) THEN s
    ELSE LET counted == [s EXCEPT !.errors = ErrorsIncrement(s.errors, c)] IN
         IF ThresholdReached(counted.errors, c)
         THEN TrippedBreaker(counted, c)
         ELSE counted

\* The branch handle_cutter takes, for the record of the step.
Branch(s, c) ==
    IF c = "None" THEN "no_command"
    ELSE IF AlreadyTripped(s.errors, c) THEN "already_tripped"
    ELSE IF ~ThresholdReached(ErrorsIncrement(s.errors, c), c) THEN "counted"
    ELSE IF trip_callback = "unset" THEN "trip_no_callback"
    ELSE "tripped"

\* Mutant of ResetBreaker: the registry entry is kept.
ResetBreakerKeepsCount(s, c, original_callback) ==
    [s EXCEPT !.tripped_at = None, !.callback[c] = original_callback]

\* Mutant of ResetBreaker: the whole registry is cleared.
ResetBreakerClearsAll(s, c, original_callback) ==
    [s EXCEPT !.tripped_at = None,
              !.callback[c] = original_callback,
              !.errors = [k \in {} |-> 0]]

\* reset_breaker(command, original_callback).
ResetBreaker(s, c, original_callback) ==
    [s EXCEPT !.tripped_at = None,
              !.callback[c] = original_callback,
              !.errors = ErrorsPop(s.errors, c)]

\* ------------------------------------------------------------------ events
\* interaction.command, the one attribute of the interaction the breaker
\* reads; a text invocation has no interaction to read it from.
CommandOf(interaction, c) == IF interaction = None THEN "None" ELSE c

NoEvent ==
    [type |-> "none", command |-> "None", hook |-> "None", ctx |-> None,
     tripped |-> FALSE, ran |-> "nothing", cb_arg |-> None,
     raised |-> "None", branch |-> "None"]

\* A failure on its way to an error hook: the framework awaits the
\* command's own error handlers before it calls the hook.
Notification(hook, interaction, c) ==
    [hook |-> hook, interaction |-> interaction, command |-> c]

InFlight == BagToSet(inflight)

\* The hooks the constructor installed.
Installed(hook) == hook = "tree" \/ original_on_command_error # "None"

\* The positional extras a callback of c may be called with: a context menu
\* (a free callback taking an Interaction) is called with its target.
Extras(c, ctx) ==
    IF Binding(c) = None /\ ctx.type = "Interaction"
    THEN {<<>>, <<Target>>} ELSE {<<>>}

\* ----------------------------------------------------------------- actions
\* The state after Cordcutter(tree, threshold=..., reset_after=time, ...).
Constructed(time) ==
    /\ threshold \in Thresholds
    /\ reset_after = NormalizeResetAfter(time)
    /\ reset_after_arg = time
    /\ trip_callback \in {"unset", "on_tripped"}
    /\ original_on_command_error \in {"None", "on_command_error"}
    /\ errors = [k \in {} |-> 0]
    /\ tripped_at = None
    /\ callback = [c \in Commands |-> OriginalCallback]
    /\ timers = EmptyBag
    /\ inflight = EmptyBag
    /\ before_trip = [c \in Commands |-> OriginalCallback]
    /\ success_between = [c \in Commands |-> FALSE]
    /\ event = NoEvent

\* A breaker constructed with the default reset_after.
Init == Constructed(None)

\* A breaker constructed with any reset_after on a plain client
\* (hybrid_app_command=False, as in example.py): the tree hook only.
ResetAfterInit ==
    \E time \in ResetAfterInputs :
        Constructed(time) /\ original_on_command_error = "None"

\* The framework calls the live handler of command c.  fails: the body that
\* runs (the command's own, or the trip callback) raises.  track: the
\* history variable success_between is kept.
Invoke(c, ctx, extra, fails, track) ==
    LET h == callback[c]
        res == IF IsWrapper(h)
               THEN Wrapper(h.binding, CallArgs(c, ctx, extra), fails)
               ELSE [ran |-> "original", cb_arg |-> None,
                     raised |-> IF fails THEN "CommandError" ELSE "None"]
        hook == IF ctx.type = "Context" THEN "hybrid" ELSE "tree"
        delivered == res.raised # "None" /\ Installed(hook)
        interaction == IF ctx.type = "Context" THEN InteractionOf(ctx) ELSE ctx
        n == Notification(hook, interaction, CommandOf(interaction, c))
        uncounted == {m \in InFlight : m.command = c}
    IN  /\ delivered => BagCardinality(inflight) < MaxInFlight
        /\ inflight' = IF delivered THEN inflight (+) SetToBag({n}) ELSE inflight
        /\ success_between' =
              IF /\ track
                 /\ res.ran = "original" /\ res.raised = "None"
                 /\ ctx # ContextText
                 /\ c \in DOMAIN errors /\ uncounted = {}
              THEN [success_between EXCEPT ![c] = TRUE]
              ELSE success_between
        /\ event' = [NoEvent EXCEPT !.type = "invoke", !.command = c,
                        !.hook = hook, !.ctx = ctx, !.tripped = IsWrapper(h),
                        !.ran = res.ran, !.cb_arg = res.cb_arg,
                        !.raised = res.raised]
        /\ UNCHANGED <<breaker, config, trip_callback, before_trip>>

\* The framework reports a failure of an interaction that belongs to no
\* command (interaction.command is None) to the tree's error handler.
HostError ==
    /\ BagCardinality(inflight) < MaxInFlight
    /\ inflight' = inflight (+) SetToBag({Notification("tree", Interaction, "None")})
    /\ event' = [NoEvent EXCEPT !.type = "host_error", !.hook = "tree"]
    /\ UNCHANGED <<breaker, config, trip_callback, history>>

\* The live state after a breaker operation returned state s.
Install(s) ==
    /\ errors' = s.errors
    /\ tripped_at' = s.tripped_at
    /\ callback' = s.callback
    /\ timers' = s.timers

\* An error hook, which runs without suspension up to its call of the
\* handler installed before the breaker: _tree_on_error awaits handle_cutter
\* (a coroutine without suspension point), _on_hybridcommand_on_error does
\* so when ctx.interaction is set; then each calls the original handler, the
\* hybrid hook when it holds one.  An exception out of handle_cutter ends
\* the hook before that call.
OnError(n) ==
    LET skipped == n.hook = "hybrid" /\ n.interaction = None
        s == IF skipped THEN BreakerState ELSE HandleCutter(BreakerState, n.command)
        branch == IF skipped THEN "no_interaction" ELSE Branch(BreakerState, n.command)
        forwarded == /\ s.raised = "None"
                     /\ (n.hook = "tree" \/ original_on_command_error # "None")
    IN  /\ n \in InFlight
        /\ Install(s)
        /\ inflight' = inflight (-) SetToBag({n})
        /\ before_trip' =
              IF ~skipped /\ n.command # "None"
                 /\ s.callback[n.command] # callback[n.command]
              THEN [before_trip EXCEPT ![n.command] = callback[n.command]]
              ELSE before_trip
        /\ event' = [NoEvent EXCEPT !.type = "on_error", !.hook = n.hook,
                        !.command = n.command, !.branch = branch,
                        !.raised = s.raised,
                        !.ran = IF forwarded THEN "original_handler" ELSE "nothing"]
        /\ UNCHANGED <<config, trip_callback, success_between>>

\* A call_later handle comes due: the loop calls reset_breaker(command,
\* original_callback).  reset_after is assignable at any time, so handles
\* need not come due in the order they were armed.
TimerFires(t) ==
    /\ t \in BagToSet(timers)
    /\ Install(ResetBreaker([BreakerState EXCEPT
                                 !.timers = @ (-) SetToBag({t})],
                            t.command, t.original_callback))
    /\ success_between' = [success_between EXCEPT ![t.command] = FALSE]
    /\ event' = [NoEvent EXCEPT !.type = "reset", !.command = t.command]
    /\ UNCHANGED <<config, trip_callback, inflight, before_trip>>

\* Mutant of TripCallbackSetter: the value is stored before it is validated.
TripCallbackSetterStoresFirst(current, cb) ==
    IF cb = "None" THEN [value |-> current, raised |-> "None"]
    ELSE IF cb = "not_coroutine" THEN [value |-> cb, raised |-> "TypeError"]
    ELSE [value |-> cb, raised |-> "None"]

\* The trip_callback setter: the callback stored afterwards and the error
\* raised, given the callback stored before and the assigned value.
TripCallbackSetter(current, cb) ==
    IF cb = "None" THEN [value |-> current, raised |-> "None"]
    ELSE IF cb = "not_coroutine" THEN [value |-> current, raised |-> "TypeError"]
    ELSE [value |-> cb, raised |-> "None"]

\* An assignment to trip_callback (the setter, or on_tripped_call, which
\* assigns through the setter and returns its argument).
SetTripCallback(cb) ==
    /\ trip_callback' = TripCallbackSetter(trip_callback, cb).value
    /\ event' = [NoEvent EXCEPT !.type = "set_trip_callback",
                    !.raised = TripCallbackSetter(trip_callback, cb).raised]
    /\ UNCHANGED <<breaker, config, inflight, history>>

\* An assignment to reset_after after construction.
SetResetAfter(time) ==
    /\ reset_after' = NormalizeResetAfter(time)
    /\ reset_after_arg' = time
    /\ event' = [NoEvent EXCEPT !.type = "set_reset_after"]
    /\ UNCHANGED <<threshold, original_on_command_error, breaker,
                   trip_callback, inflight, history>>

AnyTimerFires == \E t \in BagToSet(timers) : TimerFires(t)

Step(track) ==
    \/ \E c \in Commands, ctx \in Contexts, fails \in BOOLEAN :
          \E extra \in Extras(c, ctx) : Invoke(c, ctx, extra, fails, track)
    \/ HostError
    \/ \E n \in InFlight : OnError(n)
    \/ AnyTimerFires
    \/ \E cb \in CallbackInputs : SetTripCallback(cb)

Next == Step(FALSE)

Spec == Init /\ [][Next]_vars

\* The breaker with the history of successful executions kept.
HistoryNext == Step(TRUE)

HistorySpec == Init /\ [][HistoryNext]_vars

\* A breaker constructed with a trip callback.
ConfiguredInit == Init /\ trip_callback = "on_tripped"

ConfiguredSpec == ConfiguredInit /\ [][Next]_vars

\* The breaker with reset_after given at construction and assigned later.
ResetAfterNext ==
    \/ Next
    \/ \E time \in ResetAfterInputs : SetResetAfter(time)

ResetAfterSpec == ResetAfterInit /\ [][ResetAfterNext]_vars

\* The reset timer of command c comes due.
ResetDue(c) == \E t \in BagToSet(timers) : t.command = c /\ TimerFires(t)

\* The event loop runs every call_later handle that comes due: there is no
\* cancellation, and a handle that is due is not passed over for ever.
FairSpec == Spec /\ \A c \in Commands : WF_vars(ResetDue(c))

\* ------------------------------------------------------ reading the state
\* The command is tripped: its live handler is the fallback wrapper.
Tripped(c) == IsWrapper(callback[c])

\* The pending reset timers of command c in the bag b, with their counts.
TimersFor(b, c) ==
    [t \in {u \in BagToSet(b) : u.command = c} |-> CopiesIn(t, b)]

\* The number of pending reset timers of command c in the bag b.
TimerCount(b, c) ==
    LET f == TimersFor(b, c)
        Sum[S \in SUBSET DOMAIN f] ==
            IF S = {} THEN 0
            ELSE LET t == CHOOSE u \in S : TRUE IN f[t] + Sum[S \ {t}]
    IN  Sum[DOMAIN f]

\* This step is the bookkeeping of a failure notification for command c.
Notified(c) ==
    \E n \in InFlight :
        /\ n.command = c
        /\ CopiesIn(n, inflight') < CopiesIn(n, inflight)

\* This step is the firing of reset timer t.
Fired(t) == CopiesIn(t, timers') < CopiesIn(t, timers)

\* --------------------------------------------------------------- C1
\* C1: with a trip callback configured and threshold >= 1, a command whose
\* count is below threshold is not tripped, every failure notification below
\* threshold adds one to the count, and the notification that brings the
\* count to threshold installs the fallback wrapper.
C1_Step ==
    \A c \in Commands :
        LET before == ErrorsGet(errors, c) IN
        (Notified(c) /\ trip_callback # "unset" /\ threshold >= 1
            /\ before < threshold)
        => /\ ErrorsGet(errors', c) = before + 1
           /\ (before + 1 < threshold => callback'[c] = OriginalCallback)
           /\ (before + 1 = threshold => IsWrapper(callback'[c]))

C1_BelowThresholdNotTripped ==
    \A c \in Commands : ErrorsGet(errors, c) < threshold => ~Tripped(c)

\* C1: below threshold a command is never tripped, and (C1_Step) the failure
\* notification that brings the count to threshold trips it.
C1_TripsExactlyAtThreshold ==
    [](C1_BelowThresholdNotTripped) /\ [][C1_Step]_vars

\* A command tripped by its second failure notification.
C1_Witness ==
    /\ threshold >= 2
    /\ event.type = "on_error"
    /\ event.command \in Commands
    /\ Tripped(event.command)
    /\ ErrorsGet(errors, event.command) = threshold

\* --------------------------------------------------------------- C2
\* C2: an invocation of a tripped command's handler slot from an application
\* context runs the trip callback with that invocation's execution context
\* (the interaction, or the interaction of the context) and does not run the
\* original handler.
C2_TrippedInvocationRunsTripCallback ==
    (event.type = "invoke" /\ event.tripped /\ event.ctx # ContextText)
    => /\ event.ran = "trip_callback"
       /\ event.cb_arg \in {event.ctx, InteractionOf(event.ctx)}

\* --------------------------------------------------------------- C3
\* C3: when the reset timer of a tripped command fires, the command is not
\* tripped afterwards, the registry has no entry for it, and its live handler
\* is the handler it had before the trip.
C3_Step ==
    \A t \in BagToSet(timers) :
        (Fired(t) /\ Tripped(t.command))
        => /\ ~IsWrapper(callback'[t.command])
           /\ t.command \notin DOMAIN errors'
           /\ callback'[t.command] = before_trip[t.command]

\* C3: every firing of a reset timer closes the breaker of its command,
\* removes its registry entry and restores the pre-trip handler (C3_Step).
C3_ResetRestores == [][C3_Step]_vars

\* A reset has just closed a breaker that had counted threshold failures.
C3_Witness ==
    /\ event.type = "reset"
    /\ threshold >= 1
    /\ ~Tripped(event.command)
    /\ event.command \notin DOMAIN errors
    /\ callback[event.command] = before_trip[event.command]

\* --------------------------------------------------------------- C4
\* C4: every failure notification that enters an error hook is forwarded to
\* the handler installed before the breaker: the bookkeeping never ends the
\* hook, whatever branch it takes, and the hook then calls the original
\* handler.
C4_EveryNotificationForwarded ==
    event.type = "on_error"
    => event.raised = "None" /\ event.ran = "original_handler"

\* --------------------------------------------------------------- C5
\* The registry entry of c: its count, or -1 when it has none.
Entry(e, c) == IF c \in DOMAIN e THEN e[c] ELSE -1

\* C5: a failure notification for command A, and a reset of A, leave the
\* count, the live handler, the pending reset timers and the tripped status
\* of every other command B as they were.
C5_Step ==
    \A A \in Commands : \A B \in Commands \ {A} :
        (Notified(A) \/ \E t \in BagToSet(timers) : t.command = A /\ Fired(t))
        => /\ Entry(errors', B) = Entry(errors, B)
           /\ callback'[B] = callback[B]
           /\ TimersFor(timers', B) = TimersFor(timers, B)
           /\ AlreadyTripped(errors', B) <=> AlreadyTripped(errors, B)

\* C5: no failure notification and no reset of one command changes another
\* command's count, handler, timers or tripped status (C5_Step).
C5_OtherCommandsUntouched == [][C5_Step]_vars

\* One command is reset while the other is tripped and keeps its count.
C5_Witness ==
    /\ event.type = "reset"
    /\ \E B \in Commands \ {event.command} :
          /\ Tripped(B)
          /\ Entry(errors, B) = threshold
          /\ TimerCount(timers, B) = 1

\* --------------------------------------------------------------- C6
\* C6: a failure notification for a tripped command changes nothing of the
\* breaker: the count stays at threshold, the entry stays, the live handler
\* stays the wrapper, no timer is armed.
C6_Step ==
    \A c \in Commands :
        (Notified(c) /\ Tripped(c))
        => /\ c \in DOMAIN errors /\ errors[c] = threshold
           /\ errors' = errors
           /\ callback' = callback
           /\ timers' = timers
           /\ tripped_at' = tripped_at

\* C6: every failure notification of a tripped command is a no-op on the
\* breaker (C6_Step).
C6_FailureWhileTrippedIsNoOp == [][C6_Step]_vars

\* A failure notification of a tripped command has just been handled.
C6_Witness ==
    /\ event.type = "on_error"
    /\ event.branch = "already_tripped"
    /\ event.command \in Commands
    /\ Tripped(event.command)
    /\ TimerCount(timers, event.command) = 1

\* --------------------------------------------------------------- C7
\* C7: a step that trips a command starts from a command that is not
\* tripped and has no reset pending, captures its original handler and arms
\* one timer with it; a reset timer that fires finds its command tripped,
\* restores the captured original handler and leaves no timer behind.
C7_Step ==
    \A c \in Commands :
        /\ (callback'[c] # callback[c] /\ IsWrapper(callback'[c]))
           => /\ callback[c] = OriginalCallback
              /\ TimerCount(timers, c) = 0
              /\ TimersFor(timers', c) =
                    TimersFor(SetToBag({Timer(c, OriginalCallback)}), c)
        /\ \A t \in BagToSet(timers) :
              (t.command = c /\ Fired(t))
              => /\ Tripped(c)
                 /\ callback'[c] = OriginalCallback
                 /\ TimerCount(timers', c) = 0

\* C7: under every interleaving, no command is tripped twice without a reset
\* in between; one original handler is captured per trip and restored once
\* (C7_Step).
C7_NoDoubleTrip == [][C7_Step]_vars

\* A command has just tripped while another failure notification for it is
\* still waiting to be handled.
C7_Witness ==
    /\ event.type = "on_error"
    /\ event.branch = "tripped"
    /\ Tripped(event.command)
    /\ \E n \in InFlight : n.command = event.command

\* --------------------------------------------------------------- C8
\* C8: the step that trips a command arms exactly one reset timer for it,
\* and no command stays tripped for ever: at any time, every command is not
\* tripped then or later.
C8_Step ==
    \A c \in Commands :
        (~Tripped(c) /\ IsWrapper(callback'[c]))
        => TimerCount(timers', c) = TimerCount(timers, c) + 1

C9_TripsOnlyOnConsecutiveFailures ==
    \A c \in Commands : Tripped(c) => ~success_between[c]

\* C9 as amended: the breaker counts the failures of a command since its
\* last reset, consecutive or not.  A successful execution leaves the
\* breaker as it is, every failure notification below threshold adds one to
\* the count whether or not a success came in between, and a command becomes
\* tripped only by the failure notification that brings its count to
\* threshold.
C9_Step ==
    \A c \in Commands :
        LET before == ErrorsGet(errors, c) IN
        /\ (success_between'[c] /\ ~success_between[c]) => UNCHANGED breaker
        /\ (Notified(c) /\ before < threshold)
           => ErrorsGet(errors', c) = before + 1
        /\ (~Tripped(c) /\ IsWrapper(callback'[c]))
           => /\ Notified(c)
              /\ before = threshold - 1
              /\ ErrorsGet(errors', c) = threshold

C9_TrippedHasThresholdFailures ==
    \A c \in Commands : Tripped(c) => ErrorsGet(errors, c) = threshold

\* C9 (amended): failures are counted since the last reset whether or not
\* successful executions lie between them, and a command trips only on the
\* notification that brings that count to threshold.
C9_CountsFailuresSinceReset ==
    [](C9_TrippedHasThresholdFailures) /\ [][C9_Step]_vars

\* A command tripped by failures that a successful execution separates.
C9_Witness ==
    \E c \in Commands : Tripped(c) /\ success_between[c]

\* -------------------------------------------------------------- C10
\* C10: tripped_at is set exactly while some command is tripped.
C10_TrippedAtIffTripped ==
    (tripped_at # None) <=> (\E c \in Commands : Tripped(c))

\* -------------------------------------------------------------- C13
\* The stored reset_after is the assigned value normalized: None is one
\* minute, an integer n is n minutes, a duration is itself.
C13_Normalized ==
    /\ reset_after_arg = None => TotalSeconds(reset_after) = 60
    /\ reset_after_arg.type = "int"
       => TotalSeconds(reset_after) = reset_after_arg.id * 60
    /\ reset_after_arg.type = "timedelta" => reset_after = reset_after_arg

\* Every timer armed by a step carries the reset_after stored at that step.
C13_Step ==
    \A t \in BagToSet(timers') :
        CopiesIn(t, timers') > CopiesIn(t, timers)
        => t.delay = TotalSeconds(reset_after)

\* C13: reset_after is normalized at assignment (None: one minute, integer
\* n: n minutes, duration: unchanged), and the delay armed at a trip is that
\* normalized duration.
C13_ResetAfterNormalized == [](C13_Normalized) /\ [][C13_Step]_vars

\* A trip armed a timer of 300 seconds after reset_after was assigned 5.
C13_Witness ==
    /\ reset_after_arg = IntValue(5)
    /\ event.type = "on_error"
    /\ event.branch = "tripped"
    /\ \E t \in BagToSet(timers) :
          t.command = event.command /\ t.delay = 300

\* -------------------------------------------------------------- C11
\* C11: when the count of a command has reached threshold (threshold >= 1),
\* a reset of the command is scheduled, also when no trip callback is
\* configured.
C11_ResetScheduledAtThreshold ==
    threshold >= 1
    => \A c \in Commands :
          ErrorsGet(errors, c) >= threshold => TimerCount(timers, c) >= 1

\* -------------------------------------------------------------- C12
\* An assignment of a value that is not a coroutine function raises
\* TypeError and changes neither the stored callback nor the breaker state.
C12_Step ==
    SetTripCallback("not_coroutine")
    => /\ event'.raised = "TypeError"
       /\ UNCHANGED <<trip_callback, breaker, config>>

\* C12: assigning a non-coroutine value to trip_callback fails with a
\* TypeError in the assignment itself and leaves the configured callback and
\* all breaker state as they were.
C12_NonCoroutineRejected == [][C12_Step]_vars

\* A non-coroutine was rejected while a callback was configured and a
\* command was tripped.
C12_Witness ==
    /\ event.type = "set_trip_callback"
    /\ event.raised = "TypeError"
    /\ trip_callback = "on_tripped"
    /\ \E c \in Commands : Tripped(c)

\* -------------------------------------------------------------- C14
\* A notification that resolves to no command changes no breaker state and
\* is handed to the original handler.
C14_Step ==
    Notified("None")
    => /\ UNCHANGED breaker
       /\ event'.raised = "None"
       /\ event'.ran = "original_handler"

\* C14: a failure notification with no resolvable command (an interaction
\* without a command, or a hybrid notification whose context has no
\* interaction) leaves the registry, the handlers, tripped_at and the timers
\* unchanged and is still forwarded to the original handler.
C14_UnresolvedNotificationIgnored == [][C14_Step]_vars

\* An interaction without a command was notified and forwarded while a
\* command was tripped and another was counted.
C14_Witness ==
    /\ event.type = "on_error"
    /\ event.branch = "no_command"
    /\ event.ran = "original_handler"
    /\ \E c \in Commands : Tripped(c) /\ TimerCount(timers, c) = 1
    /\ \E c \in Commands : ~Tripped(c) /\ Entry(errors, c) >= 1

\* -------------------------------------------------------------- C15
\* An invocation in which the wrapper ran a trip callback that raises ends
\* with that error and leaves the command tripped: count at threshold, one
\* timer pending that holds the original handler.
C15_Step ==
    \A c \in Commands, ctx \in Contexts :
        \A extra \in Extras(c, ctx) :
            Invoke(c, ctx, extra, TRUE, FALSE) /\ event'.ran = "trip_callback"
            => /\ event'.raised = "CallbackError"
               /\ UNCHANGED breaker
               /\ Tripped(c)'
               /\ Entry(errors', c) = threshold
               /\ TimerCount(timers', c) = 1
               /\ \A t \in DOMAIN TimersFor(timers', c) :
                     t.original_callback = OriginalCallback

\* C15: an error raised by the trip callback leaves the wrapper uncaught
\* and changes no breaker state; the command stays tripped with its count at
\* threshold and its reset timer armed with the original handler.
C15_CallbackErrorPropagates == [][C15_Step]_vars

\* The trip callback raised in a tripped command's invocation.
C15_Witness ==
    /\ event.type = "invoke"
    /\ event.tripped
    /\ event.ran = "trip_callback"
    /\ event.raised = "CallbackError"
    /\ \E c \in Commands : event.command = c /\ Tripped(c)

\* -------------------------------------------------------------- C16
\* C16: an invocation of a tripped command's wrapper from a text context
\* (a context without interaction) fails with an error and does not run the
\* trip callback.
C16_TextInvocationRejected ==
    (event.type = "invoke" /\ event.tripped /\ event.ctx = ContextText)
    => /\ event.raised # "None"
       /\ event.ran # "trip_callback"

\* -------------------------------------------------------------- C17
\* C17: in both calling styles the wrapper finds the execution-context
\* argument: it never fails to select one, never hands the receiver to the
\* trip callback, and what it hands over is the context's interaction.
C17_WrapperPassesContext ==
    (event.type = "invoke" /\ event.tripped)
    => /\ event.raised # "IndexError"
       /\ event.cb_arg # Receiver
       /\ event.ran = "trip_callback"
          => event.cb_arg \in {event.ctx, InteractionOf(event.ctx)}

\* -------------------------------------------------------------- C18
\* With a threshold of at least one, the registry holds commands only, each
\* with a count between one and threshold.
C18_CountsInRange ==
    threshold >= 1
    => /\ DOMAIN errors \subseteq Commands
       /\ \A c \in DOMAIN errors : 1 <= errors[c] /\ errors[c] <= threshold

\* An entry appears only with the first counted failure of its command, and
\* the reset of a command leaves no entry for it.
C18_Step ==
    /\ \A c \in DOMAIN errors' \ DOMAIN errors :
          Notified(c) /\ errors'[c] = 1
    /\ \A t \in BagToSet(timers) : Fired(t) => t.command \notin DOMAIN errors'

\* C18: with threshold >= 1 every count in the registry is between 1 and
\* threshold; a command with no recorded failure since its last reset has no
\* entry, and no step other than the counting of a failure creates one.
C18_RegistryCounts == [](C18_CountsInRange) /\ [][C18_Step]_vars

\* A command was reset, so has no entry, while another has its count at a
\* threshold of two.
C18_Witness ==
    /\ threshold = 2
    /\ event.type = "reset"
    /\ event.command \notin DOMAIN errors
    /\ \E c \in DOMAIN errors : errors[c] = threshold

\* -------------------------------------------------------------- C19
\* C19: with a trip callback configured before the first failure and
\* threshold >= 1, for every command the three are equivalent: its live
\* handler is the wrapper, its count equals threshold, exactly one reset
\* timer is pending for it; otherwise its handler is the original and no
\* timer is pending; and the handler a timer holds is never a wrapper.
C19_TrippedCountTimerAgree ==
    threshold >= 1
    => /\ \A c \in Commands :
            /\ Tripped(c) <=> Entry(errors, c) = threshold
            /\ Tripped(c) <=> TimerCount(timers, c) = 1
            /\ ~Tripped(c)
               => callback[c] = OriginalCallback /\ TimerCount(timers, c) = 0
       /\ \A t \in BagToSet(timers) : ~IsWrapper(t.original_callback)

\* A command is tripped with its one timer pending while another command is
\* counted below a threshold of two.
C19_Witness ==
    /\ threshold = 2
    /\ trip_callback = "on_tripped"
    /\ \E c \in Commands :
          /\ Tripped(c) /\ TimerCount(timers, c) = 1
          /\ errors[c] = threshold
    /\ \E c \in Commands : ~Tripped(c) /\ Entry(errors, c) = 1

\* -------------------------------------------------------------- C20
\* C20: a breaker constructed with a threshold of zero or less records no
\* count, trips no command, replaces no handler and arms no timer, whatever
\* failure notifications it receives.
C20_NonPositiveThresholdInert ==
    threshold <= 0
    => /\ DOMAIN errors = {}
       /\ tripped_at = None
       /\ \A c \in Commands : ~Tripped(c) /\ callback[c] = OriginalCallback
       /\ timers = EmptyBag

\* A failure of a command was notified to a breaker with a negative
\* threshold and a trip callback, and was forwarded.
C20_Witness ==
    /\ threshold < 0
    /\ trip_callback = "on_tripped"
    /\ event.type = "on_error"
    /\ event.command \in Commands
    /\ event.branch = "already_tripped"
    /\ event.ran = "original_handler"

====
